---------------------------- MODULE Spec2Model ----------------------------
(***************************************************************************)
(* Model of the course planner of src/script.js (class App): the segment   *)
(* store (#startLatLng, #segments), the composed path (#pathCoords), the    *)
(* remembered last point (#lastPointLatLng), the asynchronous directions    *)
(* requests in flight, undo / reset, GPX export and import, and the info    *)
(* display of the distance against the target.                             *)
(***************************************************************************)
EXTENDS Integers, Sequences, FiniteSets, TLC

(* ------------------------------ bounds -------------------------------- *)
\* segments stored plus requests in flight never exceed this number: a leg
\* click or an import that would take them beyond it is not taken
MaxLegs == 2
\* most <trkpt> elements in an imported document
MaxTrkpts == 2
\* most <trkpt> elements of a downloaded file that is imported again
MaxSaved == 3
\* most legs of a course built one leg at a time
MaxSerialLegs == 3
\* segments stored plus requests in flight while texts with invalid track
\* points are imported
MaxCodecLegs == 1
\* segments stored plus requests in flight while the target field is edited
MaxInfoLegs == 1

(* ------------------------------ values -------------------------------- *)
\* JavaScript null
Null == [null |-> TRUE]
\* the not-a-number value parseFloat yields for a missing or non-numeric
\* attribute, encoded as a number below every number the model computes
\* (coordinates and distances are >= 0, differences of distances > -10)
NaN == -100

\* e.latLng.toJSON(): the points a map click can deliver
LatLngs == {[lat |-> 0, lng |-> 0], [lat |-> 1, lng |-> 0]}

Last(s) == s[Len(s)]
SeqsUpTo(S, n) == UNION {[1..k -> S] : k \in 0..n}

(* ------------------------------ state --------------------------------- *)
VARIABLES
  startLatLng,      \* #startLatLng
  lastPointLatLng,  \* #lastPointLatLng
  segments,         \* #segments, each element the coords of one segment
  pathCoords,       \* #pathCoords
  inflight,         \* route() calls whose callback has not run yet, in click order
  courseKm,         \* inputCourseKm.value, the text of the target field
  info,             \* what spanCurrent, spanTarget and spanDiff show
  ev                \* the handler that ran last, its inputs and the store before it

vars ==
  <<startLatLng, lastPointLatLng, segments, pathCoords, inflight, courseKm,
    info, ev>>

\* the private fields of App as one value
This ==
  [startLatLng |-> startLatLng, lastPointLatLng |-> lastPointLatLng,
   segments |-> segments, pathCoords |-> pathCoords]

\* write the fields back
Assign(s) ==
  /\ startLatLng' = s.startLatLng
  /\ lastPointLatLng' = s.lastPointLatLng
  /\ segments' = s.segments
  /\ pathCoords' = s.pathCoords


(* --------------------------- pure helpers ------------------------------ *)
\* seg.coords.slice(1)
Slice1(coords) == IF Len(coords) = 0 THEN <<>> ELSE Tail(coords)

\* the forEach of _rebuildPathFromSegments: path = path.concat(seg.coords.slice(1))
\* for every segment with coords.length > 0, in order
RECURSIVE ConcatSegments(_, _)
ConcatSegments(path, segs) ==
  IF segs = <<>> THEN path
  ELSE ConcatSegments(
         IF Len(Head(segs)) > 0 THEN path \o Slice1(Head(segs)) ELSE path,
         Tail(segs))

\* _rebuildPathFromSegments composing the segments also when #startLatLng
\* is null
RebuildWithoutStartCheck(s) ==
  LET path == ConcatSegments(IF s.startLatLng = Null THEN <<>>
                             ELSE <<s.startLatLng>>, s.segments)
  IN [s EXCEPT !.pathCoords = path,
               !.lastPointLatLng =
                  IF Len(path) > 0 THEN Last(path) ELSE s.startLatLng]

_rebuildPathFromSegments(s) ==
  IF s.startLatLng = Null
  THEN [s EXCEPT !.pathCoords = <<>>]
  ELSE LET path == ConcatSegments(<<s.startLatLng>>, s.segments)
       IN [s EXCEPT !.pathCoords = path,
                    !.lastPointLatLng =
                       IF Len(path) > 0 THEN Last(path) ELSE s.startLatLng]

Abs(x) == IF x < 0 THEN -x ELSE x

\* _distanceBetween: the haversine length is abstracted to a metric on the
\* grid of model coordinates (0 for equal points, symmetric); any NaN
\* coordinate makes the result NaN, as floating point arithmetic does
_distanceBetween(p1, p2) ==
  IF NaN \in {p1.lat, p1.lng, p2.lat, p2.lng} THEN NaN
  ELSE Abs(p2.lat - p1.lat) + Abs(p2.lng - p1.lng)

\* sum += ... of _getTotalDistanceKm, NaN absorbing
Plus(a, b) == IF a = NaN \/ b = NaN THEN NaN ELSE a + b

RECURSIVE SumFrom(_, _)
SumFrom(path, i) ==
  IF i > Len(path) - 1 THEN 0
  ELSE Plus(_distanceBetween(path[i], path[i + 1]), SumFrom(path, i + 1))

_getTotalDistanceKm(path) ==
  IF Len(path) < 2 THEN 0 ELSE SumFrom(path, 1)

(* ------------------------- handlers on the fields ---------------------- *)
\* _resetCourse without the reset of #lastPointLatLng
ResetKeepsLastPoint(s) ==
  [startLatLng |-> Null, lastPointLatLng |-> s.lastPointLatLng,
   segments |-> <<>>, pathCoords |-> <<>>]

_resetCourse(s) ==
  [startLatLng |-> Null, lastPointLatLng |-> Null,
   segments |-> <<>>, pathCoords |-> <<>>]

\* _undoLastSegment with shift() in place of pop()
UndoRemovesFirst(s) ==
  IF s.startLatLng = Null THEN s
  ELSE IF Len(s.segments) = 0 THEN _resetCourse(s)
  ELSE _rebuildPathFromSegments([s EXCEPT !.segments = Tail(s.segments)])

\* _undoLastSegment without the branch for an empty #segments
UndoWithoutReset(s) ==
  IF s.startLatLng = Null THEN s
  ELSE _rebuildPathFromSegments(
         [s EXCEPT !.segments = SubSeq(s.segments, 1, Len(s.segments) - 1)])

_undoLastSegment(s) ==
  IF s.startLatLng = Null THEN s
  ELSE IF Len(s.segments) = 0 THEN _resetCourse(s)
  ELSE _rebuildPathFromSegments(
         [s EXCEPT !.segments = SubSeq(s.segments, 1, Len(s.segments) - 1)])

\* _onMapClick taking the origin from the tail of #pathCoords
ClickRoutesFromPathTail(s, latLng) ==
  IF s.startLatLng = Null
  THEN [this |-> [s EXCEPT !.startLatLng = latLng,
                           !.lastPointLatLng = latLng,
                           !.pathCoords = <<latLng>>],
        route |-> <<>>]
  ELSE [this |-> [s EXCEPT !.lastPointLatLng = latLng],
        route |-> <<[origin |-> Last(s.pathCoords), destination |-> latLng]>>]

\* _onMapClick without the return that ends its start branch
ClickAlwaysSetsStart(s, latLng) ==
  [this |-> [s EXCEPT !.startLatLng = latLng,
                      !.lastPointLatLng = latLng,
                      !.pathCoords = <<latLng>>],
   route |-> IF s.startLatLng = Null THEN <<>>
             ELSE <<[origin |-> s.lastPointLatLng, destination |-> latLng]>>]

\* _onMapClick: the fields afterwards, and the route() calls it makes
_onMapClick(s, latLng) ==
  IF s.startLatLng = Null
  THEN [this |-> [s EXCEPT !.startLatLng = latLng,
                           !.lastPointLatLng = latLng,
                           !.pathCoords = <<latLng>>],
        route |-> <<>>]
  ELSE [this |-> [s EXCEPT !.lastPointLatLng = latLng],
        route |-> <<[origin |-> s.lastPointLatLng, destination |-> latLng]>>]

\* the callback with the ends of its straight fallback segment exchanged
CallbackFallbackReversed(s, origin, destination, status, overview) ==
  IF status # "OK"
  THEN _rebuildPathFromSegments(
         [s EXCEPT !.segments = Append(s.segments, <<destination, origin>>)])
  ELSE IF Len(overview) = 0 THEN s
  ELSE _rebuildPathFromSegments(
         [s EXCEPT !.segments = Append(s.segments, overview)])

\* the callback handed to directionsService.route in _addRouteSegment;
\* overview is result.routes[0].overview_path mapped to {lat, lng}
RouteCallback(s, origin, destination, status, overview) ==
  IF status # "OK"
  THEN _rebuildPathFromSegments(
         [s EXCEPT !.segments = Append(s.segments, <<origin, destination>>)])
  ELSE IF Len(overview) = 0 THEN s
  ELSE _rebuildPathFromSegments(
         [s EXCEPT !.segments = Append(s.segments, overview)])

(* ------------------------------ GPX import ----------------------------- *)
\* decimal text of the model's numbers
Digits == <<"0", "1", "2", "3", "4", "5", "6", "7", "8", "9">>

\* getAttribute of an attribute the element does not have is null, which
\* parseFloat reads as the text "null"
Missing == "null"

\* parseFloat: the number the text denotes, NaN for any other text
parseFloat(text) ==
  IF \E n \in 1..Len(Digits) : Digits[n] = text
  THEN (CHOOSE n \in 1..Len(Digits) : Digits[n] = text) - 1
  ELSE NaN

\* the lat / lon attributes of <trkpt> elements with valid coordinates
Trkpts == {[lat |-> "0", lon |-> "0"], [lat |-> "1", lon |-> "0"]}

\* the first n <trkpt> elements of a track that goes back and forth between
\* two places
Track(a, b, n) == [k \in 1..n |-> IF k % 2 = 1 THEN a ELSE b]

\* the tracks of up to MaxTrkpts elements between the places a and b
Tracks(a, b) == {Track(a, b, n) : n \in 0..MaxTrkpts}

\* a GPX text: whether it is well-formed XML, and its <trkpt> elements (of a
\* text that is not well-formed, the ones before the first error)
GpxTexts ==
  [wellFormed : BOOLEAN,
   trkpts : Tracks([lat |-> "0", lon |-> "0"], [lat |-> "1", lon |-> "0"])]

\* <trkpt> elements with a latitude that is no number, and without the lon
\* attribute
BadTrkpts == {[lat |-> "abc", lon |-> "0"], [lat |-> "1", lon |-> Missing]}

\* well-formed GPX texts some of whose <trkpt> elements may be invalid
CodecTexts ==
  [wellFormed : {TRUE}, trkpts : SeqsUpTo(Trkpts \cup BadTrkpts, MaxTrkpts)]

\* xml.getElementsByTagName('trkpt') after parser.parseFromString: the
\* parser never throws; for a text that is not well-formed the document
\* holds a parsererror element and, depending on the browser's parser,
\* either nothing else or the elements read before the error
ParsedTrkpts(gpxText) ==
  IF gpxText.wellFormed THEN {gpxText.trkpts} ELSE {<<>>, gpxText.trkpts}

\* what the parser makes of the texts: for each, whether it was well-formed
\* and the <trkpt> elements found in the document
Parses(texts) ==
  UNION {{[wellFormed |-> gpxText.wellFormed, pts |-> pts] :
            pts \in ParsedTrkpts(gpxText)} : gpxText \in texts}

\* _loadGpxFromText pushing the imported course onto #segments without
\* _resetCourse
LoadWithoutReset(s, pts) ==
  IF Len(pts) < 2 THEN s
  ELSE LET coords == [i \in 1..Len(pts) |->
                        [lat |-> parseFloat(pts[i].lat),
                         lng |-> parseFloat(pts[i].lon)]]
       IN [s EXCEPT !.pathCoords = coords,
                    !.startLatLng = coords[1],
                    !.lastPointLatLng = Last(coords),
                    !.segments = Append(s.segments, coords)]

_loadGpxFromText(s, pts) ==
  IF Len(pts) < 2 THEN s
  ELSE LET coords == [i \in 1..Len(pts) |->
                        [lat |-> parseFloat(pts[i].lat),
                         lng |-> parseFloat(pts[i].lon)]]
           r == _resetCourse(s)
       IN [r EXCEPT !.pathCoords = coords,
                    !.startLatLng = coords[1],
                    !.lastPointLatLng = Last(coords),
                    !.segments = <<coords>>]

(* ------------------------------ GPX export ----------------------------- *)
\* `${p.lat}`: the decimal text of a number, "NaN" for NaN
NumberToText(x) == IF x = NaN THEN "NaN" ELSE Digits[x + 1]

\* _downloadGpx refusing only an empty path
DownloadFromOnePoint(s) ==
  IF s.startLatLng = Null \/ Len(s.pathCoords) < 1 THEN Null
  ELSE [wellFormed |-> TRUE,
        trkpts |-> [i \in 1..Len(s.pathCoords) |->
                      [lat |-> NumberToText(s.pathCoords[i].lat),
                       lon |-> NumberToText(s.pathCoords[i].lng)]]]

\* _downloadGpx writing the latitude into both attributes
DownloadLatTwice(s) ==
  IF s.startLatLng = Null \/ Len(s.pathCoords) < 2 THEN Null
  ELSE [wellFormed |-> TRUE,
        trkpts |-> [i \in 1..Len(s.pathCoords) |->
                      [lat |-> NumberToText(s.pathCoords[i].lat),
                       lon |-> NumberToText(s.pathCoords[i].lat)]]]

\* _downloadGpx: the text offered for download (as for the imported texts,
\* its <trkpt> elements), null when the export is refused
_downloadGpx(s) ==
  IF s.startLatLng = Null \/ Len(s.pathCoords) < 2 THEN Null
  ELSE [wellFormed |-> TRUE,
        trkpts |-> [i \in 1..Len(s.pathCoords) |->
                      [lat |-> NumberToText(s.pathCoords[i].lat),
                       lon |-> NumberToText(s.pathCoords[i].lng)]]]

(* ----------------------------- info display --------------------------- *)
\* the 0.2 km of Math.abs(diff) <= 0.2, in the model's unit of distance, a
\* tenth of a kilometre
Tolerance == 2

Green == "#00c46a"
Orange == "#ffb545"
Grey == "#ececec"

\* the texts typed into the target field
InputTexts == {"", "abc", "0", "2", "3"}

\* unary plus on the text of the field: 0 for the empty text, NaN for text
\* that is no number
ToNumber(text) == IF text = "" THEN 0 ELSE parseFloat(text)

\* currentKm - targetKm, NaN absorbing
Minus(a, b) == IF a = NaN \/ b = NaN THEN NaN ELSE a - b

\* Math.abs(diff) <= 0.2, false for NaN
WithinTolerance(diff) == diff # NaN /\ Abs(diff) <= Tolerance

\* _updateInfo comparing with < in place of <=
UpdateInfoStrict(s, text) ==
  LET currentKm == _getTotalDistanceKm(s.pathCoords)
      targetKm == ToNumber(text)
      diff == Minus(currentKm, targetKm)
  IN IF targetKm # 0 /\ targetKm # NaN
     THEN [current |-> currentKm, hasTarget |-> TRUE, target |-> targetKm,
           diff |-> diff,
           color |-> IF diff # NaN /\ Abs(diff) < Tolerance
                     THEN Green ELSE Orange]
     ELSE [current |-> currentKm, hasTarget |-> FALSE, target |-> 0,
           diff |-> 0, color |-> Grey]

\* _updateInfo: the spans it writes; targetKm = +inputCourseKm.value || null
\* is null for 0 and for NaN, and without a target (hasTarget FALSE)
\* spanTarget and spanDiff show '-'
_updateInfo(s, text) ==
  LET currentKm == _getTotalDistanceKm(s.pathCoords)
      targetKm == ToNumber(text)
      diff == Minus(currentKm, targetKm)
  IN IF targetKm # 0 /\ targetKm # NaN
     THEN [current |-> currentKm, hasTarget |-> TRUE, target |-> targetKm,
           diff |-> diff,
           color |-> IF WithinTolerance(diff) THEN Green ELSE Orange]
     ELSE [current |-> currentKm, hasTarget |-> FALSE, target |-> 0,
           diff |-> 0, color |-> Grey]

\* the spans before _updateInfo has run: the text of the page as loaded
Unwritten ==
  [current |-> 0, hasTarget |-> FALSE, target |-> 0, diff |-> 0,
   color |-> "unset"]

\* a handler has run and left the fields s: the fields are written back,
\* and the display is written by _updateInfo if the handler reached its
\* call of it
Handled(reached, s) ==
  /\ Assign(s)
  /\ courseKm' = courseKm
  /\ info' = IF reached THEN _updateInfo(s, courseKm) ELSE info

(* ------------------------------ actions -------------------------------- *)
NoRequest == [origin |-> Null, destination |-> Null, stale |-> FALSE]

\* what ev records of a step: the handler, its inputs, and of the state it
\* started from whether start was set and how many segments were stored
Event(op, latLng, req, status, overview, wellFormed, found) ==
  [op |-> op,
   pre |-> [started |-> startLatLng # Null, n |-> Len(segments)],
   latLng |-> latLng, req |-> req, status |-> status, overview |-> overview,
   wellFormed |-> wellFormed, found |-> found, pts |-> <<>>, gpx |-> Null]

\* a point of the road network
RoadPoint == [lat |-> 0, lng |-> 0]

\* the polylines the directions service answers a request with: none, the
\* straight leg, a leg through a point of the road, and a leg that starts
\* on the road instead of at the origin asked for
Overviews(origin, destination) ==
  {<<>>, <<origin, destination>>, <<origin, RoadPoint, destination>>,
   <<RoadPoint, destination>>}

\* every request issued so far was issued before the undo / reset now running
MarkStale(reqs) == [i \in 1..Len(reqs) |-> [reqs[i] EXCEPT !.stale = TRUE]]

RemoveAt(s, i) == SubSeq(s, 1, i - 1) \o SubSeq(s, i + 1, Len(s))

Init ==
  /\ startLatLng = Null
  /\ lastPointLatLng = Null
  /\ segments = <<>>
  /\ pathCoords = <<>>
  /\ inflight = <<>>
  /\ courseKm = ""
  /\ info = Unwritten
  /\ ev = [op |-> "init", pre |-> [started |-> FALSE, n |-> 0],
           latLng |-> Null, req |-> NoRequest, status |-> "-",
           overview |-> <<>>, wellFormed |-> TRUE, found |-> 0,
           pts |-> <<>>, gpx |-> Null]

\* the map's click listener
ClickWithin(maxLegs) ==
  \E latLng \in LatLngs :
    LET r == _onMapClick(This, latLng) IN
    /\ startLatLng # Null => Len(segments) + Len(inflight) < maxLegs
    /\ Handled(startLatLng = Null, r.this)
    /\ inflight' = inflight \o
                     [i \in 1..Len(r.route) |->
                        [origin |-> r.route[i].origin,
                         destination |-> r.route[i].destination,
                         stale |-> FALSE]]
    /\ ev' = Event("click", latLng, NoRequest, "-", <<>>, TRUE, 0)

Click == ClickWithin(MaxLegs)

\* the directions service answers one outstanding request, in any order
RouteDone ==
  \E i \in 1..Len(inflight), status \in {"OK", "NOT_OK"} :
    \E overview \in IF status = "OK"
                     THEN Overviews(inflight[i].origin, inflight[i].destination)
                     ELSE {<<>>} :
      /\ Handled(status # "OK" \/ Len(overview) > 0,
                 RouteCallback(This, inflight[i].origin,
                               inflight[i].destination, status, overview))
      /\ inflight' = RemoveAt(inflight, i)
      /\ ev' = Event("route", Null, inflight[i], status, overview, TRUE, 0)

\* the undo button
Undo ==
  /\ Handled(startLatLng # Null, _undoLastSegment(This))
  /\ inflight' = MarkStale(inflight)
  /\ ev' = Event("undo", Null, NoRequest, "-", <<>>, TRUE, 0)

\* the reset button
Reset ==
  /\ Handled(TRUE, _resetCourse(This))
  /\ inflight' = MarkStale(inflight)
  /\ ev' = Event("reset", Null, NoRequest, "-", <<>>, TRUE, 0)

\* the file the user can pick besides the given texts: the one the save
\* button has just produced, if it has no more than MaxSaved track points
Downloaded ==
  IF ev.op = "save" /\ ev.gpx # Null /\ Len(ev.gpx.trkpts) <= MaxSaved
  THEN {ev.gpx} ELSE {}

\* the file reader's onload: _loadGpxFromText on the text of the chosen file
ImportFrom(texts, maxLegs) ==
  /\ Len(inflight) < maxLegs
  /\ \E parsed \in Parses(texts \cup Downloaded) :
       LET pts == parsed.pts IN
       /\ Handled(Len(pts) >= 2, _loadGpxFromText(This, pts))
       /\ inflight' = IF Len(pts) < 2 THEN inflight ELSE MarkStale(inflight)
       /\ ev' = [Event("import", Null, NoRequest, "-", <<>>,
                        parsed.wellFormed, Len(pts)) EXCEPT !.pts = pts]

Import == ImportFrom(GpxTexts, MaxLegs)

\* the save button
Save ==
  /\ UNCHANGED <<startLatLng, lastPointLatLng, segments, pathCoords, inflight,
                 courseKm, info>>
  /\ ev' = [Event("save", Null, NoRequest, "-", <<>>, TRUE, 0)
              EXCEPT !.gpx = _downloadGpx(This)]

Next == Click \/ RouteDone \/ Undo \/ Reset \/ Import \/ Save

Spec == Init /\ [][Next]_vars

(* ------------- serialized use: one leg at a time, no undo -------------- *)
\* the answers whose polyline runs from the origin asked for to the
\* destination asked for
Conforming(origin, destination) ==
  {<<origin, destination>>, <<origin, RoadPoint, destination>>}

\* a click made only after the response of the leg before it was delivered
ClickSerial ==
  /\ inflight = <<>>
  /\ ClickWithin(MaxSerialLegs)

\* the directions service fails, or answers with a polyline from origin to
\* destination
RouteDoneSerial ==
  \E i \in 1..Len(inflight), status \in {"OK", "NOT_OK"} :
    \E overview \in IF status = "OK"
                     THEN Conforming(inflight[i].origin, inflight[i].destination)
                     ELSE {<<>>} :
      /\ Handled(status # "OK" \/ Len(overview) > 0,
                 RouteCallback(This, inflight[i].origin,
                               inflight[i].destination, status, overview))
      /\ inflight' = RemoveAt(inflight, i)
      /\ ev' = Event("route", Null, inflight[i], status, overview, TRUE, 0)

NextSerial == ClickSerial \/ RouteDoneSerial

SpecSerial == Init /\ [][NextSerial]_vars

(* ------------------- the target field is edited ------------------------- *)
\* well-formed GPX texts of tracks between two places half a kilometre apart
InfoTexts ==
  [wellFormed : {TRUE},
   trkpts : Tracks([lat |-> "0", lon |-> "0"], [lat |-> "5", lon |-> "0"])]

\* the input listener of the target field: _updateInfo on the new text
SetTarget ==
  \E text \in InputTexts :
    /\ courseKm' = text
    /\ info' = _updateInfo(This, text)
    /\ UNCHANGED <<startLatLng, lastPointLatLng, segments, pathCoords, inflight>>
    /\ ev' = Event("target", Null, NoRequest, "-", <<>>, TRUE, 0)

ClickInfo == ClickWithin(MaxInfoLegs)

ImportInfo == ImportFrom(InfoTexts, MaxInfoLegs)

NextInfo ==
  ClickInfo \/ RouteDone \/ Undo \/ Reset \/ ImportInfo \/ Save \/ SetTarget

SpecInfo == Init /\ [][NextInfo]_vars

(* ------------- import of texts with invalid track points --------------- *)
ImportCodec == ImportFrom(CodecTexts, MaxCodecLegs)

ClickCodec == ClickWithin(MaxCodecLegs)

NextCodec == ClickCodec \/ RouteDone \/ Undo \/ Reset \/ ImportCodec \/ Save

SpecCodec == Init /\ [][NextCodec]_vars

(* ------------------- the composed path of the data model --------------- *)
Front(s) == SubSeq(s, 1, Len(s) - 1)

\* start followed by, for each segment, all of its points except the first
RECURSIVE ComposedPath(_, _)
ComposedPath(start, segs) ==
  IF start = Null THEN <<>>
  ELSE IF segs = <<>> THEN <<start>>
  ELSE ComposedPath(start, Front(segs)) \o Tail(Last(segs))

\* sum over the segments of (segment length - 1)
RECURSIVE JoinedLength(_)
JoinedLength(segs) ==
  IF segs = <<>> THEN 0 ELSE (Len(Head(segs)) - 1) + JoinedLength(Tail(segs))

(* -------------------------------- claims ------------------------------- *)

\* C1: a routing response for a leg requested before an undo or a reset
\* (the reset of an import included) and delivered after it is discarded:
\* delivering it changes neither start, segments nor the composed path.
C1_StaleResponseDiscarded ==
  [][(ev'.op = "route" /\ ev'.req.stale)
       => UNCHANGED <<startLatLng, segments, pathCoords>>]_vars

\* C2: in every reachable state the composed path has length
\* 1 + sum of (segment length - 1) when start is present, and 0 when absent.
C2_PathLength ==
  Len(pathCoords) =
    IF startLatLng = Null THEN 0 ELSE 1 + JoinedLength(segments)

\* C3: every routing completion appends exactly one segment: the resolved
\* polyline when the status is OK and the polyline is non-empty, the straight
\* segment [origin, destination] otherwise.
C3_CompletionAppends ==
  [][ev'.op = "route"
       => segments' =
            Append(segments,
                   IF ev'.status = "OK" /\ Len(ev'.overview) > 0
                   THEN ev'.overview
                   ELSE <<ev'.req.origin, ev'.req.destination>>)]_vars

\* the polyline of the response runs from the request's origin to its destination
RunsOriginToDestination(e) ==
  e.status = "OK" /\ Len(e.overview) > 0
    => e.overview[1] = e.req.origin /\ Last(e.overview) = e.req.destination

\* C4: whenever a segment is appended (the response's polyline running from
\* the request's origin to its destination), its first point equals the last
\* point of the composed path immediately before the append.
C4_AppendJoinsPath ==
  [][(ev'.op = "route" /\ Len(segments') = Len(segments) + 1
        /\ RunsOriginToDestination(ev'))
       => /\ Len(pathCoords) > 0
          /\ Last(segments')[1] = Last(pathCoords)]_vars

\* C5: a click while start is absent sets start to the clicked point and
\* clears segments: afterwards segments is empty, the composed path is
\* exactly [start], and no routing request was issued.
C5_StartClickClearsSegments ==
  [][(ev'.op = "click" /\ startLatLng = Null)
       => /\ startLatLng' = ev'.latLng
          /\ segments' = <<>>
          /\ pathCoords' = <<startLatLng'>>
          /\ inflight' = inflight]_vars

C7_UndoRemovesLast ==
  [][(ev'.op = "undo" /\ startLatLng # Null /\ Len(segments) >= 1)
       => /\ startLatLng' = startLatLng
          /\ segments' = Front(segments)
          /\ pathCoords' = ComposedPath(startLatLng, Front(segments))
          /\ Len(segments) = 1
               => /\ pathCoords' = <<startLatLng>>
                  /\ _getTotalDistanceKm(pathCoords') = 0]_vars

\* an undo has taken a store of two segments to its first segment
C7_Witness ==
  /\ ev.op = "undo"
  /\ ev.pre.started /\ ev.pre.n = 2
  /\ startLatLng # Null
  /\ Len(segments) = 1
  /\ Len(pathCoords) >= 2

Empty ==
  startLatLng = Null /\ segments = <<>> /\ pathCoords = <<>>

\* C8: undo on a store with start set and no segments behaves as reset:
\* afterwards start is absent, segments is empty and the composed path is
\* empty; so two undos in a row on a store with exactly one segment yield
\* first the start-only store and then the empty store.
C8_UndoOnStartOnlyResets ==
  [][/\ (ev'.op = "undo" /\ startLatLng # Null /\ segments = <<>>) => Empty'
     /\ (ev.op = "undo" /\ ev.pre.started /\ ev.pre.n = 1 /\ ev'.op = "undo")
          => /\ startLatLng # Null
             /\ segments = <<>>
             /\ pathCoords = <<startLatLng>>
             /\ Empty']_vars

\* an undo has run on a start-only store
C8_Witness ==
  /\ ev.op = "undo"
  /\ ev.pre.started /\ ev.pre.n = 0
  /\ Empty

\* C9: reset from any reachable state yields start absent, segments empty,
\* composed path empty, last point absent and a total distance of 0.
C9_ResetClearsAll ==
  ev.op = "reset"
    => /\ startLatLng = Null
       /\ segments = <<>>
       /\ pathCoords = <<>>
       /\ lastPointLatLng = Null
       /\ _getTotalDistanceKm(pathCoords) = 0

\* a reset has run on a store with a segment while a request was in flight
C9_Witness ==
  /\ ev.op = "reset"
  /\ ev.pre.started /\ ev.pre.n >= 1
  /\ inflight # <<>>
  /\ Empty

\* C10: a failed import (fewer than 2 track points, or text that is not
\* well-formed markup) leaves start, segments, the composed path and the
\* last point exactly as they were.
C10_FailedImportChangesNothing ==
  [][(ev'.op = "import" /\ (~ev'.wellFormed \/ ev'.found < 2))
       => UNCHANGED <<startLatLng, segments, pathCoords, lastPointLatLng>>]_vars

\* the coordinates an import reads from the track points it found
Coords(pts) ==
  [i \in 1..Len(pts) |->
     [lat |-> parseFloat(pts[i].lat), lng |-> parseFloat(pts[i].lon)]]

\* a coordinate of the point is not a number
HasNaN(p) == p.lat = NaN \/ p.lng = NaN

AnyNaN(path) == \E i \in 1..Len(path) : HasNaN(path[i])

\* C11: an import that finds at least 2 track points, one of them with a
\* missing or non-numeric latitude / longitude, is rejected as a whole: the
\* store is left unchanged and no not-a-number coordinate appears in start,
\* segments or the composed path.
C11_InvalidImportRejected ==
  [][(ev'.op = "import" /\ ev'.found >= 2 /\ AnyNaN(Coords(ev'.pts)))
       => /\ UNCHANGED <<startLatLng, segments, pathCoords, lastPointLatLng>>
          /\ startLatLng' # Null => ~HasNaN(startLatLng')
          /\ ~AnyNaN(pathCoords')
          /\ \A k \in 1..Len(segments') : ~AnyNaN(segments'[k])]_vars

\* C12: a successful import of coords (length >= 2) replaces the whole store:
\* afterwards start = coords[0], segments is the single segment coords, the
\* composed path equals coords and the last point is coords' last element;
\* one undo then leaves only start.
C12_ImportReplacesStore ==
  [][/\ (ev'.op = "import" /\ ev'.found >= 2)
          => /\ startLatLng' = Coords(ev'.pts)[1]
             /\ segments' = <<Coords(ev'.pts)>>
             /\ pathCoords' = Coords(ev'.pts)
             /\ lastPointLatLng' = Last(Coords(ev'.pts))
     /\ (ev.op = "import" /\ ev.found >= 2 /\ ev'.op = "undo")
          => /\ startLatLng' = startLatLng
             /\ segments' = <<>>
             /\ pathCoords' = <<startLatLng>>]_vars

\* an import has replaced a store that held a segment of its own
C12_Witness ==
  /\ ev.op = "import"
  /\ ev.found >= 2
  /\ ev.pre.started /\ ev.pre.n >= 1
  /\ segments = <<pathCoords>>

\* C13: export is refused whenever the composed path has fewer than 2
\* points: no document is produced and the store is unchanged; with at least
\* 2 points it produces a document with exactly one track point per path
\* point, in path order.
C13_ExportNeedsTwoPoints ==
  [][ev'.op = "save"
       => /\ UNCHANGED <<startLatLng, segments, pathCoords, lastPointLatLng>>
          /\ Len(pathCoords) < 2 => ev'.gpx = Null
          /\ Len(pathCoords) >= 2
               => /\ ev'.gpx # Null
                  /\ Len(ev'.gpx.trkpts) = Len(pathCoords)
                  /\ \A i \in 1..Len(pathCoords) :
                       /\ ev'.gpx.trkpts[i].lat = NumberToText(pathCoords[i].lat)
                       /\ ev'.gpx.trkpts[i].lon = NumberToText(pathCoords[i].lng)]_vars

\* the path of a course of two segments has been exported
C13_Witness ==
  /\ ev.op = "save"
  /\ Len(segments) = 2
  /\ Len(pathCoords) = 3
  /\ ev.gpx # Null
  /\ Len(ev.gpx.trkpts) = 3

\* decode: the coordinates _loadGpxFromText makes of a text, as the path of
\* the store it leaves
Decode(gpxText) ==
  {_loadGpxFromText(This, pts).pathCoords : pts \in ParsedTrkpts(gpxText)}

\* C14: round trip: for every composed path of length >= 2, decoding the
\* document produced by encoding it yields the same points in the same order;
\* so importing the exported document leaves the composed path and the total
\* distance what they were before the export.
C14_RoundTrip ==
  [][/\ Len(pathCoords) >= 2
          => Decode(_downloadGpx(This)) = {pathCoords}
     /\ (ev.op = "save" /\ ev.gpx # Null
           /\ ev'.op = "import" /\ ev'.pts = ev.gpx.trkpts)
          => /\ pathCoords' = pathCoords
             /\ _getTotalDistanceKm(pathCoords')
                  = _getTotalDistanceKm(pathCoords)]_vars

\* the exported file of a course of two segments has been imported again
C14_Witness ==
  /\ ev.op = "import"
  /\ ev.pre.n = 2
  /\ Len(ev.pts) = 3
  /\ segments = <<pathCoords>>
  /\ pathCoords[1] # pathCoords[2]

\* the step is a leg click: a click with start present
LegClick == ev'.op = "click" /\ startLatLng # Null

\* the handler that ran rebuilt the path from a store with start present
Rebuilt(e) ==
  \/ e.op = "undo"
  \/ e.op = "import" /\ e.found >= 2
  \/ e.op = "route" /\ (e.status # "OK" \/ Len(e.overview) > 0)

\* C16, as stated: the origin of every leg request equals the last point of
\* the composed path at the moment the click is handled, also when an earlier
\* leg request is still in flight.
C16_OriginIsPathTail ==
  [][LegClick
       => /\ Len(inflight') = Len(inflight) + 1
          /\ Last(inflight').origin = Last(pathCoords)]_vars

\* C16, amended: the origin of every leg request equals the remembered last
\* point at the moment the click is handled: the point of the previous click
\* when the click follows a click, and the last point of the composed path
\* when it follows a handler that rebuilt the path.
C16_OriginIsLastPoint ==
  [][LegClick
       => /\ Len(inflight') = Len(inflight) + 1
          /\ Last(inflight').origin = lastPointLatLng
          /\ Last(inflight').destination = ev'.latLng
          /\ ev.op = "click" => Last(inflight').origin = ev.latLng
          /\ Rebuilt(ev) => Last(inflight').origin = Last(pathCoords)]_vars

\* a leg was requested while the request of the leg before it was in flight:
\* its origin is that leg's destination, not the tail of the path
C16_Witness ==
  /\ ev.op = "click"
  /\ Len(inflight) = 2
  /\ ~inflight[1].stale
  /\ inflight[2].origin = inflight[1].destination
  /\ inflight[2].origin # Last(pathCoords)

\* C17: when two or more leg requests overlap, every one of them completes
\* with an append, and the segments are stored in the order the responses
\* are delivered: each delivery adds one segment at the tail.
C17_OverlappingAppendInDeliveryOrder ==
  [][(ev'.op = "route" /\ Len(inflight) >= 2)
       => /\ Len(segments') = Len(segments) + 1
          /\ Front(segments') = segments]_vars

\* C18: once start is present it keeps its value until a reset (undo acting
\* as reset and a successful import included): a click while start is present
\* changes neither start, segments nor the composed path, and a routing
\* completion never changes start.
C18_StartKeptUntilReset ==
  [][/\ (startLatLng # Null
           /\ ~(\/ ev'.op = "reset"
                \/ ev'.op = "undo" /\ segments = <<>>
                \/ ev'.op = "import" /\ ev'.found >= 2))
          => startLatLng' = startLatLng
     /\ LegClick => UNCHANGED <<startLatLng, segments, pathCoords>>
     /\ ev'.op = "route" => startLatLng' = startLatLng]_vars

\* a click has been handled on a store with start and a segment
C18_Witness ==
  /\ ev.op = "click"
  /\ ev.pre.started /\ ev.pre.n >= 1
  /\ startLatLng # Null /\ startLatLng # ev.latLng
  /\ Len(segments) = ev.pre.n

\* C15: when a target distance is set, the display shows diff = currentKm -
\* targetKm and the within-tolerance colour exactly when |diff| <= 0.2 km
\* (|diff| = 0.2 included); without a target it shows neither. The display
\* never influences the store: editing the target changes neither the store
\* nor the requests in flight.
C15_WithinTolerance ==
  [][/\ info' # Unwritten
          => /\ info'.current = _getTotalDistanceKm(pathCoords')
             /\ info'.hasTarget <=> ToNumber(courseKm') > 0
             /\ info'.hasTarget
                  => /\ info'.target = ToNumber(courseKm')
                     /\ info'.diff = info'.current - info'.target
                     /\ info'.color \in {Green, Orange}
                     /\ info'.color = Green
                          <=> (-Tolerance <= info'.diff
                                 /\ info'.diff <= Tolerance)
             /\ ~info'.hasTarget => info'.color = Grey
     /\ ev'.op = "target"
          => UNCHANGED <<startLatLng, lastPointLatLng, segments, pathCoords,
                         inflight>>]_vars

\* the target was set 0.2 km away from the distance of a course of two
\* points: the display shows the within-tolerance colour
C15_Witness ==
  /\ ev.op = "target"
  /\ Len(pathCoords) >= 2
  /\ info.hasTarget
  /\ Abs(info.diff) = Tolerance
  /\ info.color = Green

\* each segment starts where the one before it ends, the first one at start
Joined(start, segs) ==
  \A k \in 1..Len(segs) :
    segs[k][1] = IF k = 1 THEN start ELSE Last(segs[k - 1])

\* C19: serialized use builds one continuous path: with each click made
\* after the previous leg's response was delivered, and every response a
\* failure or a non-empty polyline from origin to destination, each completed
\* leg adds one segment (k segments after the k-th leg), each segment's first
\* point is the previous segment's last point (or start), and the composed
\* path begins at start and ends at the last clicked point.
C19_SerialPathContinuous ==
  [][/\ LegClick => inflight = <<>> /\ segments' = segments
     /\ ev'.op = "route"
          => /\ Len(segments') = Len(segments) + 1
             /\ inflight' = <<>>
             /\ Joined(startLatLng', segments')
             /\ pathCoords' = ComposedPath(startLatLng', segments')
             /\ pathCoords'[1] = startLatLng'
             /\ Last(pathCoords') = ev'.req.destination]_vars

\* the third leg of a course built one leg at a time has completed, by a
\* failure, and its straight segment joins the two before it
C19_Witness ==
  /\ ev.op = "route"
  /\ ev.status = "NOT_OK"
  /\ ev.pre.n = 2
  /\ Len(segments) = 3
  /\ inflight = <<>>
  /\ segments[3][1] = Last(segments[2])
  /\ segments[3][1] # Last(segments[3])
  /\ Last(pathCoords) = ev.req.destination

\* C20: whenever no leg request is in flight, the remembered last point is
\* absent if start is absent and otherwise equals the last point of the
\* composed path.
C20_LastPointIsPathTail ==
  inflight = <<>>
    => IF startLatLng = Null THEN lastPointLatLng = Null
       ELSE lastPointLatLng = Last(pathCoords)

=============================================================================
